---- MODULE Spec2Model ----
(***************************************************************************)
(* JsonProvider of sdk/py_near/providers.py: the candidate endpoint list,  *)
(* the latency-ranked snapshot of available endpoints, its refresh         *)
(* (check_available_rpcs), the dispatch with failover (call_rpc_request,   *)
(* json_rpc) and the polling fallback of send_tx_and_wait.                 *)
(*                                                                         *)
(* The program runs on one asyncio event loop: code between two awaits is  *)
(* one atomic step.  Each action below is one such step: from the entry of *)
(* a coroutine, or from the completion of the HTTP request / sleep it is   *)
(* suspended on, up to its next suspension or its end.                     *)
(***************************************************************************)
EXTENDS Integers, Sequences, FiniteSets, TLC

(* ------------------------------ bounds -------------------------------- *)
NumEndpoints == 3   \* longest candidate list given to the constructor
MaxLatency == 2     \* measured probe latencies range over 1..MaxLatency
NumCallers == 2     \* coroutines of the application calling the provider
NumTasks == 2       \* check_available_rpcs coroutines alive at the same time
MaxOps == 2         \* top-level operations started in one behaviour
MaxDepth == 2       \* deepest nesting of dicts in error["data"]
MaxLogs == 2        \* longest list of logs of one outcome
MaxReceipts == 2    \* most receipt outcomes of one transaction
MaxReads == 3       \* reads of TransactionResult.logs in one behaviour

(* ------------------------- program constants -------------------------- *)
Cooldown == 30          \* providers.py:93   "... .timestamp() - 30"
PollInterval == 3       \* providers.py:190  "asyncio.sleep(3)"
PollDivisor == 3        \* providers.py:189  "TIMEOUT_WAIT_RPC // 3"
HTTP_OK == 200          \* providers.py:66   "r.status == 200"
TIMEOUT_WAIT_RPC == 6   \* sdk.py_near.constants (imported at providers.py:11)

Latencies == 1..MaxLatency

\* The wall clock at construction: the first dispatch finds the initial
\* timestamp 0 older than the cooldown, as with any real clock.
StartTime == Cooldown + 1

\* Time passes in steps of exactly the cooldown or one second more, and stops
\* at StartTime + MaxElapsed.
TickSteps == {Cooldown, Cooldown + 1}

MaxElapsed == Cooldown + 1

VARIABLES
    self_rpc_addresses,         \* self._rpc_addresses
    self_available_rpcs,        \* self._available_rpcs: the snapshot
    self_last_rpc_addr_check,   \* self._last_rpc_addr_check
    now,                        \* datetime.datetime.now().timestamp()
    call,                       \* per caller: the operation it is suspended in
    task,                       \* per slot: one run of check_available_rpcs
    installed,                  \* history: the run that assigned the snapshot last
                                \* (newest, newest_result: the latest-started
                                \* run completed and the ranking it made)
    last_trigger,               \* history: the last refresh a dispatch started
    ops_left,                   \* operations that may still be started
    transaction_result,         \* the TransactionResult objects a caller holds
    decoded,                    \* history: the result each was built from
    reads                       \* history: what each read of .logs returned

\* The TransactionResult a caller holds and its history.
tx_vars == <<transaction_result, decoded, reads>>

\* The provider, its callers and its refresh runs.
provider_vars ==
    <<self_rpc_addresses, self_available_rpcs, self_last_rpc_addr_check,
      now, call, task, installed, last_trigger, ops_left>>

vars == <<self_rpc_addresses, self_available_rpcs, self_last_rpc_addr_check,
          now, call, task, installed, last_trigger, ops_left,
          transaction_result, decoded, reads>>

\* The callers and the refresh slots of the behaviour, fixed by Init.
Callers == DOMAIN call

Tasks == DOMAIN task

(* ---------------------------- sequences ------------------------------- *)
Range(s) == {s[i] : i \in 1..Len(s)}

Contains(s, x) == \E i \in 1..Len(s) : s[i] = x

IsPrefix(p, s) == Len(p) <= Len(s) /\ \A i \in 1..Len(p) : p[i] = s[i]

RECURSIVE SeqsUpTo(_, _)
SeqsUpTo(S, n) ==
    IF n = 0 THEN {<<>>}
    ELSE LET shorter == SeqsUpTo(S, n - 1)
         IN  shorter \cup
             {Append(q, x) : q \in {r \in shorter : Len(r) = n - 1}, x \in S}

(* ------------------------- decoded JSON bodies ------------------------ *)
\* A decoded response body.  falsy: the JSON value is falsy ({} [] null 0 "");
\* has_error / has_data / has_result: the keys "error", error["data"], "result";
\* cause: error["cause"]["name"] ("" when absent); keys: the chain of first keys
\* of the nested dicts of error["data"]; decodable: the result has the shape
\* TransactionResult(**result) accepts.
Body(falsy, has_error, cause, has_data, keys, has_result, decodable) ==
    [falsy |-> falsy, has_error |-> has_error, cause |-> cause,
     has_data |-> has_data, keys |-> keys, has_result |-> has_result,
     decodable |-> decodable]

NoBody == Body(TRUE, FALSE, "-", FALSE, <<>>, FALSE, FALSE)

FalsyBody == Body(TRUE, FALSE, "", FALSE, <<>>, FALSE, FALSE)

ResultBody == Body(FALSE, FALSE, "", FALSE, <<>>, TRUE, TRUE)

BadTxBody == Body(FALSE, FALSE, "", FALSE, <<>>, TRUE, FALSE)

NoResultBody == Body(FALSE, FALSE, "", FALSE, <<>>, FALSE, FALSE)

ErrorBody(cause, keys) == Body(FALSE, TRUE, cause, TRUE, keys, FALSE, FALSE)

Bodies ==
    {ResultBody, FalsyBody,
     ErrorBody("TIMEOUT_ERROR", <<>>),
     ErrorBody("INTERNAL_ERROR", <<>>),
     ErrorBody("UNKNOWN_ACCOUNT", <<>>)}

\* The bodies a get_tx lookup can also meet: a result TransactionResult(**...)
\* rejects with a TypeError.
TxBodies == Bodies \cup {BadTxBody}

NoContent == [src |-> 0, body |-> NoBody]

(* ------------------------- error classification ----------------------- *)
PROVIDER_CODE_TO_EXCEPTION ==
    ("UNKNOWN_BLOCK" :> "UnknownBlockError") @@
    ("INVALID_ACCOUNT" :> "InvalidAccount") @@
    ("UNKNOWN_ACCOUNT" :> "UnknownAccount") @@
    ("NO_CONTRACT_CODE" :> "NoContractCodeError") @@
    ("TOO_LARGE_CONTRACT_STATE" :> "TooLargeContractStateError") @@
    ("UNAVAILABLE_SHARD" :> "UnavailableShardError") @@
    ("NO_SYNCED_BLOCKS" :> "NoSyncedBlocksError") @@
    ("INTERNAL_ERROR" :> "InternalError") @@
    ("NOT_SYNCED_YET" :> "NoSyncedYetError") @@
    ("INVALID_TRANSACTION" :> "InvalidTransactionError") @@
    ("TIMEOUT_ERROR" :> "RPCTimeoutError") @@
    ("UNKNOWN_ACCESS_KEY" :> "UnknownAccessKeyError")

\* sdk/py_near/exceptions/provider.py is not among the sources: the table of
\* action-level codes is known only as "a mapping from a key to a more specific
\* kind"; two entries stand for it.
ERROR_CODE_TO_EXCEPTION ==
    ("InvalidTxError" :> "InvalidTxError") @@
    ("InvalidNonce" :> "InvalidNonce")

\* PROVIDER_CODE_TO_EXCEPTION.get(error_code, InternalError)
ProviderError(error_code) ==
    IF error_code \in DOMAIN PROVIDER_CODE_TO_EXCEPTION
    THEN PROVIDER_CODE_TO_EXCEPTION[error_code]
    ELSE "InternalError"

WalkBody_FirstKeyOnly(keys, error) ==
    IF keys # <<>> /\ Head(keys) \in DOMAIN ERROR_CODE_TO_EXCEPTION
    THEN ERROR_CODE_TO_EXCEPTION[Head(keys)]
    ELSE error

\* The "while True" walk of get_error_from_response over the nested body:
\* keys are the first keys of the nested dicts, error the kind found so far.
RECURSIVE WalkBody(_, _)
WalkBody(keys, error) ==
    IF keys = <<>> THEN error
    ELSE IF Head(keys) \in DOMAIN ERROR_CODE_TO_EXCEPTION
         THEN WalkBody(Tail(keys), ERROR_CODE_TO_EXCEPTION[Head(keys)])
         ELSE error

\* get_error_from_response: "None" when the content has no "error" key,
\* "KeyError" raised by content["error"]["data"] when there is no "data".
get_error_from_response(body) ==
    IF ~body.has_error THEN "None"
    ELSE IF ~body.has_data THEN "KeyError"
    ELSE WalkBody(body.keys, ProviderError(body.cause))

\* The values of error["cause"]["name"]: the mapped names, a name the
\* mapping does not have, and "" for an error without a cause.
Causes == DOMAIN PROVIDER_CODE_TO_EXCEPTION \cup {"PARSE_ERROR", ""}

\* The keys a server nests in error["data"]: the action-level codes and a key
\* that is none.
DataKeys == DOMAIN ERROR_CODE_TO_EXCEPTION \cup {"InvalidTx"}

RECURSIVE KeyChains(_)
KeyChains(n) ==
    IF n = 0 THEN {<<>>}
    ELSE LET shorter == KeyChains(n - 1)
         IN  shorter \cup
             {Append(k, x) : k \in {c \in shorter : Len(c) = n - 1},
                             x \in DataKeys}

\* The decoded bodies with an "error" key: with or without "data" (data a
\* non-dict or {} has the empty chain), with or without a "result" beside it.
ErrorBodies ==
    {Body(FALSE, TRUE, cause, TRUE, keys, has_result, FALSE) :
        cause \in Causes, keys \in KeyChains(MaxDepth), has_result \in BOOLEAN}
    \cup
    {Body(FALSE, TRUE, cause, FALSE, <<>>, has_result, FALSE) :
        cause \in Causes, has_result \in BOOLEAN}

\* Every shape of decoded body json_rpc tells apart.
AllBodies == {ResultBody, FalsyBody, NoResultBody} \cup ErrorBodies

(* ------------------------------ outcomes ------------------------------ *)
\* How a call ends: kind "return" or "raise"; exc the exception class; msg its
\* message; content the decoded response the value or the error was built from.
Outcome(kind, exc, msg, content) ==
    [kind |-> kind, exc |-> exc, msg |-> msg, content |-> content]

NoOutcome == Outcome("none", "", "", NoContent)

Returned(content) == Outcome("return", "", "", content)

Raised(exc, msg, content) == Outcome("raise", exc, msg, content)

\* What session.post / raise_for_status / json.loads can do for one endpoint.
PostExceptions ==
    {"ClientResponseError", "ClientConnectorError", "ServerDisconnectedError",
     "ConnectionError", "TimeoutError", "JSONDecodeError"}

PostOutcomes ==
    {[exc |-> "", body |-> b] : b \in Bodies} \cup
    {[exc |-> e, body |-> NoBody] : e \in PostExceptions}

TxPostOutcomes ==
    {[exc |-> "", body |-> b] : b \in TxBodies} \cup
    {[exc |-> e, body |-> NoBody] : e \in PostExceptions}

RpcPostOutcomes ==
    {[exc |-> "", body |-> b] : b \in AllBodies} \cup
    {[exc |-> e, body |-> NoBody] : e \in PostExceptions}

\* The except clause of the request loop.
CaughtByRequestLoop ==
    {"RPCTimeoutError", "ClientResponseError", "ClientConnectorError",
     "ServerDisconnectedError", "ConnectionError"}

Caught_HttpStatusOnly(exc) == exc = "ClientResponseError"

Caught(exc) == exc \in CaughtByRequestLoop

\* json_rpc, from the value call_rpc_request returned.
JsonRpcOutcome(content) ==
    IF content.body.falsy
    THEN Raised("RpcNotAvailableError", "RPC not available", NoContent)
    ELSE LET error == get_error_from_response(content.body)
         IN  IF error = "KeyError" THEN Raised("KeyError", "data", NoContent)
             ELSE IF error # "None" THEN Raised(error, "", content)
             ELSE IF ~content.body.has_result
                  THEN Raised("KeyError", "result", NoContent)
                  ELSE Returned(content)

(* --------------------------- the refresh ------------------------------ *)
\* What one GET {rpc_addr}/status can do.  exc: session.get raised (timeout,
\* connection error, ...); wellformed: the text is JSON with
\* data["sync_info"]["syncing"]; latency: utcnow() after the response minus
\* timestamp_start.
ProbeOutcomes ==
    [exc : {FALSE}, status : {HTTP_OK, 500}, wellformed : BOOLEAN,
     syncing : BOOLEAN, latency : Latencies]
    \cup {[exc |-> TRUE, status |-> 0, wellformed |-> FALSE, syncing |-> FALSE,
           latency |-> 1]}

\* The probe as the specification judges it: answered with HTTP 200 and
\* reported sync_info.syncing false.
Healthy(o) == ~o.exc /\ o.status = HTTP_OK /\ o.wellformed /\ ~o.syncing

\* Lines 60-86: whether the loop body reaches available_rpcs.append.  An
\* exception of session.get, json.loads or the subscripts lands in
\* "except Exception".
Accepted(o) ==
    IF o.exc THEN FALSE
    ELSE IF o.status = HTTP_OK
         THEN (IF o.wellformed THEN ~o.syncing ELSE FALSE)
         ELSE FALSE

\* Lines 60-86: whether the loop body for one candidate ended in the except
\* clause: session.get raised, or json.loads / the subscripts raised on a
\* body of another shape.
RaisedInProbe(o) == o.exc \/ (o.status = HTTP_OK /\ ~o.wellformed)

ProbeEscapes_MalformedBody(o) == ~o.exc /\ RaisedInProbe(o)

\* Lines 84-86: "except Exception" takes whatever the loop body raises;
\* nothing a probe raises leaves check_available_rpcs.
ProbeEscapes(o) == FALSE

\* sorted(available_rpcs, key=lambda x: x[1]): stable, ascending by x[1].
InsertByLatency(s, x) ==
    LET k == Cardinality({i \in 1..Len(s) : s[i][2] <= x[2]})
    IN  SubSeq(s, 1, k) \o <<x>> \o SubSeq(s, k + 1, Len(s))

RECURSIVE SortedByLatency(_)
SortedByLatency(s) ==
    IF s = <<>> THEN <<>>
    ELSE InsertByLatency(SortedByLatency(SubSeq(s, 1, Len(s) - 1)), s[Len(s)])

Ranked_Unsorted(available_rpcs) ==
    [i \in 1..Len(available_rpcs) |-> available_rpcs[i][1]]

\* [r[0] for r in sorted(available_rpcs, key=lambda x: x[1])]
Ranked(available_rpcs) ==
    LET s == SortedByLatency(available_rpcs)
    IN  [i \in 1..Len(s) |-> s[i][1]]

\* One run of check_available_rpcs.  pc "probe": suspended in session.get for
\* self._rpc_addresses[i]; available_rpcs: the local list of (rpc_addr,
\* latency); awaiter: the caller awaiting the run, 0 for a task made by
\* asyncio.create_task.  History: healthy, the endpoints whose probe in this
\* run was Healthy; probed, the number of probes completed; raised, the
\* number of them that ended in the except clause; seq, the place of the run
\* in the order in which the runs were started.
IdleTask ==
    [pc |-> "idle", i |-> 0, available_rpcs |-> <<>>, awaiter |-> 0,
     healthy |-> {}, probed |-> 0, raised |-> 0, seq |-> 0]

\* History: a number above that of every run in progress or completed.
NextSeq ==
    LET used == {task[t].seq : t \in Tasks} \cup {installed.newest}
    IN  1 + (CHOOSE n \in used : \A m \in used : m <= n)

NewTask(awaiter) ==
    [pc |-> "probe", i |-> 1, available_rpcs |-> <<>>, awaiter |-> awaiter,
     healthy |-> {}, probed |-> 0, raised |-> 0, seq |-> NextSeq]

\* Lines 59-65: the GETs of run t that have been sent and have not ended.
\* The for loop awaits session.get for one candidate before it goes on to the
\* next.
InFlight(t) == IF task[t].pc = "probe" THEN {task[t].i} ELSE {}

FreeTasks == {t \in Tasks : task[t].pc = "idle"}

FreeTask == CHOOSE t \in FreeTasks : \A u \in FreeTasks : t <= u

\* Callers are interchangeable: the next operation is started by the idle
\* caller of the lowest number.
IdleCaller(c) ==
    /\ call[c].pc = "idle"
    /\ \A d \in Callers : call[d].pc = "idle" => c <= d

SnapshotAfterProbe_Partial(available_rpcs, last) == Ranked(available_rpcs)

\* The value of self._available_rpcs after the loop body for one endpoint:
\* it is assigned once, after the last candidate (lines 87-89).
SnapshotAfterProbe(available_rpcs, last) ==
    IF last THEN Ranked(available_rpcs) ELSE self_available_rpcs

(* ---------------------------- the callers ----------------------------- *)
\* One caller of the provider.  op: the operation it is in; pc: where it is
\* suspended ("await_refresh": in "await self.check_available_rpcs()", "post":
\* in session.post for rpcs[idx], "sleep": in asyncio.sleep, "done": the
\* operation ended with result); stage: for send_tx_and_wait, the json_rpc
\* call it is in; trx_hash, receiver_id: whether the arguments are truthy;
\* rpcs: the list object the for loop of call_rpc_request iterates; content:
\* the local content; polls: iterations of the polling loop begun; saved: the
\* exception the "except RPCTimeoutError" clause is handling.
\* timeout: the timeout argument of send_tx_and_wait; block_id, finality: the
\* arguments of view_call (block_id <<>> for None, <<n>> for the integer n);
\* method, params: the arguments of the json_rpc call, when the operation
\* builds them.
\* History of the current call_rpc_request: posts, the endpoints POSTed to;
\* outs, how each POST ended; empty_at_start / stale_at_start, the two
\* disjuncts of line 93-94 at entry; trig, the refresh it started; refreshed,
\* the run it awaited has completed.  History of send_tx_and_wait: broadcast,
\* how its broadcast_tx_commit call ended; sleeps, the arguments of the
\* asyncio.sleep calls made; lookup, how the last get_tx call ended.
IdleCall ==
    [op |-> "none", pc |-> "idle", stage |-> "-", trx_hash |-> FALSE,
     receiver_id |-> FALSE, rpcs |-> <<>>, idx |-> 0, content |-> NoContent,
     polls |-> 0, saved |-> NoOutcome, result |-> NoOutcome,
     posts |-> <<>>, outs |-> <<>>, empty_at_start |-> FALSE,
     stale_at_start |-> FALSE, trig |-> "none", refreshed |-> FALSE,
     broadcast |-> NoOutcome, sleeps |-> <<>>, lookup |-> NoOutcome,
     timeout |-> 0, block_id |-> <<>>, finality |-> "-",
     method |-> "-", params |-> <<>>]

PollBound_NoBound == TIMEOUT_WAIT_RPC * TIMEOUT_WAIT_RPC

\* for _ in range(constants.TIMEOUT_WAIT_RPC // 3)
PollBound == TIMEOUT_WAIT_RPC \div PollDivisor

PollsAfterTimeout_EitherId(rec) == rec.receiver_id \/ rec.trx_hash

\* if receiver_id and trx_hash
PollsAfterTimeout(rec) == rec.receiver_id /\ rec.trx_hash

ReRaised_LastLookup(rec, lookup) ==
    IF lookup.kind = "raise" THEN lookup ELSE rec.saved

\* Line 200: the bare raise re-raises the exception the "except
\* RPCTimeoutError" clause is handling, whatever the last lookup raised.
ReRaised(rec, lookup) == rec.saved

\* get_tx, from how its json_rpc("tx", ...) ended: TransactionResult(**result)
\* raises a TypeError on a result of another shape.
GetTxOutcome(outcome) ==
    IF outcome.kind = "return" /\ ~outcome.content.body.decodable
    THEN Raised("TypeError", "", NoContent)
    ELSE outcome

\* Lines 193-197: "except InternalError: continue" and "except Exception:
\* continue"; a CancelledError is no Exception.
SwallowedByPolling(exc) == exc # "CancelledError"

\* The end of one json_rpc call inside the operation of rec, up to the next
\* suspension of the caller.
Finish(rec, outcome) ==
    IF rec.op = "send_tx_and_wait" /\ rec.stage = "broadcast"
    THEN \* lines 181-200: except RPCTimeoutError
         IF outcome.kind = "raise" /\ outcome.exc = "RPCTimeoutError"
         THEN IF PollsAfterTimeout(rec) /\ PollBound > 0
              THEN [rec EXCEPT !.pc = "sleep", !.saved = outcome,
                               !.broadcast = outcome,
                               !.sleeps = Append(@, PollInterval)]
              ELSE [rec EXCEPT !.pc = "done", !.result = outcome,
                               !.broadcast = outcome]
         ELSE [rec EXCEPT !.pc = "done", !.result = outcome,
                          !.broadcast = outcome]
    ELSE IF rec.op = "send_tx_and_wait" /\ rec.stage = "lookup"
    THEN \* lines 191-200: a TransactionResult object is truthy
         LET got == GetTxOutcome(outcome)
         IN  IF got.kind = "return"
             THEN [rec EXCEPT !.pc = "done", !.result = got, !.lookup = got]
             ELSE IF ~SwallowedByPolling(got.exc)
             THEN [rec EXCEPT !.pc = "done", !.result = got, !.lookup = got]
             ELSE IF rec.polls < PollBound
             THEN [rec EXCEPT !.pc = "sleep", !.lookup = got,
                              !.sleeps = Append(@, PollInterval)]
             ELSE [rec EXCEPT !.pc = "done", !.lookup = got,
                              !.result = ReRaised(rec, got)]
    ELSE [rec EXCEPT !.pc = "done", !.result = outcome]

\* Lines 125, 150-157: the request loop is over with content.
AfterLoop(rec, content) ==
    Finish([rec EXCEPT !.content = content], JsonRpcOutcome(content))

\* Lines 103-112: the no-endpoint guard and the first POST of the loop over
\* the list object snapshot.
EnterLoop(rec, snapshot) ==
    IF snapshot = <<>>
    THEN Finish(rec, Raised("RpcNotAvailableError", "No RPC available",
                            NoContent))
    ELSE [rec EXCEPT !.pc = "post", !.rpcs = snapshot, !.idx = 1,
                     !.posts = <<snapshot[1]>>]

Stale_Always == TRUE

\* Line 93: self._last_rpc_addr_check < datetime.datetime.now().timestamp() - 30
Stale == self_last_rpc_addr_check < now - Cooldown

\* Lines 92-95
NeedsRefresh == Stale \/ self_available_rpcs = <<>>

AwaitsRefresh_Never == FALSE

AwaitsRefresh_Always == TRUE

\* Lines 97-101: "if self._available_rpcs: create_task(...) else: await ..."
AwaitsRefresh == self_available_rpcs = <<>>

StopsAfterSuccess_NoBreak == FALSE

\* Line 115: the break after a parsed response.
StopsAfterSuccess == TRUE

\* Line 109: the for loop holds the list object it started with; an
\* assignment to self._available_rpcs does not change it.
IteratedList(rec) == rec.rpcs

\* The transport-class errors of the specification: HTTP-status error,
\* connection error, disconnection, generic connection failure.
TransportErrors ==
    {"ClientResponseError", "ClientConnectorError", "ServerDisconnectedError",
     "ConnectionError"}

\* How a POST ended, as the specification classes it.
OutClass(exc) ==
    IF exc = "" THEN "ok"
    ELSE IF exc \in TransportErrors
    THEN "transport"
    ELSE IF exc = "TimeoutError" THEN "timeout"
    ELSE "decode"

\* Lines 91-112: json_rpc -> call_rpc_request from its entry to its first
\* suspension, for caller c whose record becomes rec0.
Dispatch(c, rec0) ==
    LET rec == [rec0 EXCEPT !.rpcs = <<>>, !.idx = 0, !.content = NoContent,
                            !.posts = <<>>, !.outs = <<>>,
                            !.empty_at_start = (self_available_rpcs = <<>>),
                            !.stale_at_start = Stale,
                            !.trig = "none", !.refreshed = FALSE]
    IN  IF NeedsRefresh
        THEN /\ FreeTasks # {}
             /\ self_last_rpc_addr_check' = now
             /\ last_trigger' = now
             /\ IF AwaitsRefresh
                THEN /\ task' = [task EXCEPT ![FreeTask] = NewTask(c)]
                     /\ call' = [call EXCEPT ![c] =
                            [rec EXCEPT !.pc = "await_refresh",
                                        !.trig = "awaited"]]
                ELSE /\ task' = [task EXCEPT ![FreeTask] = NewTask(0)]
                     /\ call' = [call EXCEPT ![c] =
                            EnterLoop([rec EXCEPT !.trig = "detached"],
                                      self_available_rpcs)]
        ELSE /\ call' = [call EXCEPT ![c] = EnterLoop(rec, self_available_rpcs)]
             /\ UNCHANGED <<task, self_last_rpc_addr_check, last_trigger>>

(* ------------------------------ actions ------------------------------- *)
\* JsonProvider.__init__ with a list of n addresses, used by the given number
\* of callers, with room for the given number of concurrent refresh runs.
Construct(n, callers, tasks, ops) ==
    /\ self_rpc_addresses = [i \in 1..n |-> i]
    /\ self_available_rpcs = self_rpc_addresses
    /\ self_last_rpc_addr_check = 0
    /\ now = StartTime
    /\ call = [c \in 1..callers |-> IdleCall]
    /\ task = [t \in 1..tasks |-> IdleTask]
    /\ installed = [done |-> FALSE, healthy |-> {}, probed |-> 0,
                    raised |-> 0, seq |-> 0, newest |-> 0,
                    newest_result |-> <<>>]
    /\ last_trigger = 0
    /\ ops_left = ops

\* No transaction has been looked up: the caller holds no TransactionResult.
NoTransactionResult ==
    /\ transaction_result = <<>>
    /\ decoded = <<>>
    /\ reads = <<>>

\* The constructor's three shapes of use explored: the longest candidate list
\* with one caller; a list one shorter with concurrent callers; a single
\* address (rpc_addr a tuple or a string) with concurrent callers and one more
\* operation.
Init ==
    /\ \/ Construct(NumEndpoints, 1, NumTasks, MaxOps)
       \/ Construct(NumEndpoints - 1, NumCallers, NumTasks, MaxOps)
       \/ Construct(1, NumCallers, NumTasks, MaxOps + 1)
    /\ NoTransactionResult

\* A caller calls json_rpc (get_account, view_call, send_tx, ...).
JsonRpc(c) ==
    /\ IdleCaller(c)
    /\ ops_left > 0
    /\ ops_left' = ops_left - 1
    /\ Dispatch(c, [IdleCall EXCEPT !.op = "json_rpc"])
    /\ UNCHANGED <<self_rpc_addresses, self_available_rpcs, now, installed>>
    /\ UNCHANGED tx_vars

\* The timeout argument of send_tx_and_wait: the default, one smaller, one
\* larger.
Timeouts ==
    {TIMEOUT_WAIT_RPC - PollInterval, TIMEOUT_WAIT_RPC,
     TIMEOUT_WAIT_RPC + PollInterval}

\* A caller calls send_tx_and_wait: the broadcast_tx_commit json_rpc.
SendTxAndWait(c, timeout, trx_hash, receiver_id) ==
    /\ IdleCaller(c)
    /\ ops_left > 0
    /\ ops_left' = ops_left - 1
    /\ Dispatch(c, [IdleCall EXCEPT !.op = "send_tx_and_wait",
                                    !.stage = "broadcast",
                                    !.timeout = timeout,
                                    !.trx_hash = trx_hash,
                                    !.receiver_id = receiver_id])
    /\ UNCHANGED <<self_rpc_addresses, self_available_rpcs, now, installed>>
    /\ UNCHANGED tx_vars

\* A caller awaits check_available_rpcs itself (the manual refresh).
CheckAvailableRpcs(c) ==
    /\ IdleCaller(c)
    /\ ops_left > 0
    /\ FreeTasks # {}
    /\ ops_left' = ops_left - 1
    /\ task' = [task EXCEPT ![FreeTask] = NewTask(c)]
    /\ call' = [call EXCEPT ![c] =
           [IdleCall EXCEPT !.op = "check_available_rpcs",
                            !.pc = "await_refresh"]]
    /\ UNCHANGED <<self_rpc_addresses, self_available_rpcs,
                   self_last_rpc_addr_check, now, installed, last_trigger>>
    /\ UNCHANGED tx_vars

\* Lines 59-89: the GET of run t for self._rpc_addresses[i] ends with o; the
\* loop body runs; then either the next GET is sent or, after the last
\* candidate, the snapshot is assigned and the awaiting caller goes on
\* (lines 103-112) without a suspension in between.
ProbeDone(t, o) ==
    /\ task[t].pc = "probe"
    /\ LET tk == task[t]
           rpc_addr == self_rpc_addresses[tk.i]
           available_rpcs ==
               IF Accepted(o)
               THEN Append(tk.available_rpcs, <<rpc_addr, o.latency>>)
               ELSE tk.available_rpcs
           healthy ==
               IF Healthy(o) THEN tk.healthy \cup {<<rpc_addr, o.latency>>}
               ELSE tk.healthy
           raised == IF RaisedInProbe(o) THEN tk.raised + 1 ELSE tk.raised
           last == tk.i = Len(self_rpc_addresses)
           snapshot == SnapshotAfterProbe(available_rpcs, last)
           escaped == Raised("ProbeException", "", NoContent)
       IN  IF ProbeEscapes(o)
           THEN \* the run ends with the exception; an awaiting caller gets it
                /\ task' = [task EXCEPT ![t] = IdleTask]
                /\ call' =
                     IF tk.awaiter = 0 THEN call
                     ELSE IF call[tk.awaiter].op = "check_available_rpcs"
                     THEN [call EXCEPT ![tk.awaiter] =
                              [@ EXCEPT !.pc = "done", !.result = escaped]]
                     ELSE [call EXCEPT ![tk.awaiter] = Finish(@, escaped)]
                /\ UNCHANGED <<self_available_rpcs, installed>>
           ELSE
           /\ self_available_rpcs' = snapshot
           /\ IF last
              THEN /\ task' = [task EXCEPT ![t] = IdleTask]
                   /\ installed' = [done |-> TRUE, healthy |-> healthy,
                                    probed |-> tk.probed + 1,
                                    raised |-> raised,
                                    seq |-> tk.seq,
                                    newest |->
                                        IF tk.seq > installed.newest
                                        THEN tk.seq ELSE installed.newest,
                                    newest_result |->
                                        IF tk.seq > installed.newest
                                        THEN Ranked(available_rpcs)
                                        ELSE installed.newest_result]
                   /\ call' =
                        IF tk.awaiter = 0 THEN call
                        ELSE IF call[tk.awaiter].op = "check_available_rpcs"
                        THEN [call EXCEPT ![tk.awaiter] =
                                 [@ EXCEPT !.pc = "done",
                                           !.result = Returned(NoContent)]]
                        ELSE [call EXCEPT ![tk.awaiter] =
                                 EnterLoop([@ EXCEPT !.refreshed = TRUE],
                                           snapshot)]
              ELSE /\ task' = [task EXCEPT ![t] =
                          [tk EXCEPT !.i = tk.i + 1,
                                     !.available_rpcs = available_rpcs,
                                     !.healthy = healthy,
                                     !.probed = tk.probed + 1,
                                     !.raised = raised]]
                   /\ UNCHANGED <<installed, call>>
    /\ UNCHANGED <<self_rpc_addresses, self_last_rpc_addr_check, now,
                   last_trigger, ops_left>>
    /\ UNCHANGED tx_vars

SnapshotAfterPost_DropFailed(rpc_addr, exc) ==
    IF exc = "" THEN self_available_rpcs
    ELSE SelectSeq(self_available_rpcs, LAMBDA x : x # rpc_addr)

\* Lines 110-124: the value of self._available_rpcs after the POST to rpc_addr
\* ended with exc ("" for a response): the loop body and its except clause
\* assign nothing to it.
SnapshotAfterPost(rpc_addr, exc) == self_available_rpcs

\* Lines 109-125, 150-157: the POST of caller c to rpcs[idx] ends with o.
PostDone(c, o) ==
    /\ call[c].pc = "post"
    /\ LET rec0 == call[c]
           rpc_addr == rec0.rpcs[rec0.idx]
           content == IF o.exc = "" THEN [src |-> rpc_addr, body |-> o.body]
                      ELSE rec0.content
           rec == [rec0 EXCEPT !.outs = Append(@, OutClass(o.exc)),
                               !.content = content]
           list == IteratedList(rec)
       IN  call' = [call EXCEPT ![c] =
               IF o.exc = "" /\ StopsAfterSuccess
               THEN AfterLoop(rec, content)
               ELSE IF o.exc = "" \/ Caught(o.exc)
               THEN IF rec.idx < Len(list)
                    THEN [rec EXCEPT !.idx = rec.idx + 1,
                                     !.posts = Append(@, list[rec.idx + 1])]
                    ELSE AfterLoop(rec, content)
               ELSE Finish(rec, Raised(o.exc, "", NoContent))]
    /\ self_available_rpcs' =
           SnapshotAfterPost(call[c].rpcs[call[c].idx], o.exc)
    /\ UNCHANGED <<self_rpc_addresses,
                   self_last_rpc_addr_check, now, task, installed,
                   last_trigger, ops_left>>
    /\ UNCHANGED tx_vars

\* Lines 190-192: asyncio.sleep(3) is over; get_tx -> json_rpc("tx", ...).
SleepDone(c) ==
    /\ call[c].pc = "sleep"
    /\ Dispatch(c, [call[c] EXCEPT !.stage = "lookup", !.polls = @ + 1])
    /\ UNCHANGED <<self_rpc_addresses, self_available_rpcs, now, installed,
                   ops_left>>
    /\ UNCHANGED tx_vars

\* The application cancels the operation caller c is suspended in: the
\* CancelledError is raised at the await; a run of check_available_rpcs it
\* awaits is the same coroutine chain and ends with it, a task made by
\* create_task is not touched.
Cancel(c) ==
    /\ call[c].pc \in {"await_refresh", "post", "sleep"}
    /\ call' = [call EXCEPT ![c] =
           [@ EXCEPT !.pc = "done",
                     !.result = Raised("CancelledError", "", NoContent)]]
    /\ task' = [t \in Tasks |->
                   IF task[t].pc = "probe" /\ task[t].awaiter = c
                   THEN IdleTask ELSE task[t]]
    /\ UNCHANGED <<self_rpc_addresses, self_available_rpcs,
                   self_last_rpc_addr_check, now, installed, last_trigger,
                   ops_left>>
    /\ UNCHANGED tx_vars

\* The caller takes the result; it may call again.
Return(c) ==
    /\ call[c].pc = "done"
    /\ call' = [call EXCEPT ![c] = IdleCall]
    /\ UNCHANGED <<self_rpc_addresses, self_available_rpcs,
                   self_last_rpc_addr_check, now, task, installed,
                   last_trigger, ops_left>>
    /\ UNCHANGED tx_vars

\* Wall-clock time passes.
Tick(d) ==
    /\ now + d <= StartTime + MaxElapsed
    /\ now' = now + d
    /\ UNCHANGED <<self_rpc_addresses, self_available_rpcs,
                   self_last_rpc_addr_check, call, task, installed,
                   last_trigger, ops_left>>
    /\ UNCHANGED tx_vars

Next ==
    \/ \E c \in Callers : JsonRpc(c)
    \/ \E c \in Callers : CheckAvailableRpcs(c)
    \/ \E t \in Tasks, o \in ProbeOutcomes : ProbeDone(t, o)
    \/ \E c \in Callers, o \in PostOutcomes : PostDone(c, o)
    \/ \E c \in Callers : Cancel(c)
    \/ \E c \in Callers : Return(c)
    \/ \E d \in TickSteps : Tick(d)

Spec == Init /\ [][Next]_vars

\* The provider used for send_tx_and_wait by one caller.
InitTx == Construct(NumEndpoints - 1, 1, NumTasks, 1) /\ NoTransactionResult

NextTx ==
    \/ \E c \in Callers, timeout \in Timeouts, h \in BOOLEAN, r \in BOOLEAN :
           SendTxAndWait(c, timeout, h, r)
    \/ \E t \in Tasks, o \in ProbeOutcomes : ProbeDone(t, o)
    \/ \E c \in Callers, o \in TxPostOutcomes : PostDone(c, o)
    \/ \E c \in Callers : SleepDone(c)
    \/ \E c \in Callers : Cancel(c)
    \/ \E c \in Callers : Return(c)
    \/ \E d \in TickSteps : Tick(d)

SpecTx == InitTx /\ [][NextTx]_vars

\* The provider with one address, used for one json_rpc call whose response
\* ranges over every shape of body.
InitRpc == Construct(1, 1, 1, 1) /\ NoTransactionResult

NextRpc ==
    \/ \E c \in Callers : JsonRpc(c)
    \/ \E t \in Tasks, o \in ProbeOutcomes : ProbeDone(t, o)
    \/ \E c \in Callers, o \in RpcPostOutcomes : PostDone(c, o)
    \/ \E c \in Callers : Return(c)

SpecRpc == InitRpc /\ [][NextRpc]_vars

\* One caller making one call, json_rpc or send_tx_and_wait, that nobody
\* cancels, on an event loop where every HTTP request and every sleep ends:
\* the GET of each run of check_available_rpcs, the POST and the sleep of the
\* caller each complete once begun.
LiveCallers == 1..1

LiveTasks == 1..NumTasks

InitLive == Construct(NumEndpoints - 1, 1, NumTasks, 1) /\ NoTransactionResult

NextLive ==
    \/ \E c \in Callers : JsonRpc(c)
    \/ \E c \in Callers, h \in BOOLEAN, r \in BOOLEAN :
           SendTxAndWait(c, TIMEOUT_WAIT_RPC, h, r)
    \/ \E t \in Tasks, o \in ProbeOutcomes : ProbeDone(t, o)
    \/ \E c \in Callers, o \in TxPostOutcomes : PostDone(c, o)
    \/ \E c \in Callers : SleepDone(c)
    \/ \E c \in Callers : Return(c)
    \/ \E d \in TickSteps : Tick(d)

SpecLive ==
    /\ InitLive
    /\ [][NextLive]_vars
    /\ \A t \in LiveTasks : WF_vars(\E o \in ProbeOutcomes : ProbeDone(t, o))
    /\ \A c \in LiveCallers :
           /\ WF_vars(\E o \in TxPostOutcomes : PostDone(c, o))
           /\ WF_vars(SleepDone(c))

(* ------------------------------ view_call ----------------------------- *)
\* The base64 alphabet, indexed from 1, and the padding character.
B64Alphabet ==
    <<"A", "B", "C", "D", "E", "F", "G", "H", "I", "J", "K", "L", "M",
      "N", "O", "P", "Q", "R", "S", "T", "U", "V", "W", "X", "Y", "Z",
      "a", "b", "c", "d", "e", "f", "g", "h", "i", "j", "k", "l", "m",
      "n", "o", "p", "q", "r", "s", "t", "u", "v", "w", "x", "y", "z",
      "0", "1", "2", "3", "4", "5", "6", "7", "8", "9", "+", "/">>

B64Pad == "="

\* One group of base64.b64encode: up to three bytes make four characters,
\* the missing bytes padded.
B64Group(bytes) ==
    LET b1 == bytes[1]
        b2 == IF Len(bytes) > 1 THEN bytes[2] ELSE 0
        b3 == IF Len(bytes) > 2 THEN bytes[3] ELSE 0
        n == b1 * 65536 + b2 * 256 + b3
    IN  <<B64Alphabet[(n \div 262144) + 1],
          B64Alphabet[((n \div 4096) % 64) + 1],
          IF Len(bytes) > 1 THEN B64Alphabet[((n \div 64) % 64) + 1]
          ELSE B64Pad,
          IF Len(bytes) > 2 THEN B64Alphabet[(n % 64) + 1] ELSE B64Pad>>

\* base64.b64encode(args).decode("utf8"), as the sequence of its characters.
RECURSIVE b64encode(_)
b64encode(bytes) ==
    IF bytes = <<>> THEN <<>>
    ELSE IF Len(bytes) <= 3 THEN B64Group(bytes)
    ELSE B64Group(SubSeq(bytes, 1, 3)) \o b64encode(SubSeq(bytes, 4, Len(bytes)))

\* The arguments view_call is called with: args b"", b"{}" and a four-byte
\* string; finality; block_id None, 0 or a later block.
ViewArgs == {<<>>, <<123, 125>>, <<91, 49, 50, 93>>}

Finalities == {"optimistic", "final"}

BlockIds == {<<>>, <<0>>, <<1>>}

\* Line 284: "if block_id:", the truth value of an Optional[int].
Truthy(block_id) == block_id # <<>> /\ block_id[1] # 0

\* Lines 278-287: the query body.
ViewBody(account_id, method_name, args, finality, block_id) ==
    LET body == ("request_type" :> "call_function") @@
                ("account_id" :> account_id) @@
                ("method_name" :> method_name) @@
                ("args_base64" :> b64encode(args))
    IN  IF Truthy(block_id)
        THEN body @@ ("block_id" :> block_id[1])
        ELSE body @@ ("finality" :> finality)

\* A caller calls view_call: the body is built and json_rpc("query", body)
\* is awaited.
ViewCall(c, account_id, method_name, args, finality, block_id) ==
    /\ IdleCaller(c)
    /\ ops_left > 0
    /\ ops_left' = ops_left - 1
    /\ Dispatch(c, [IdleCall EXCEPT
                       !.op = "view_call",
                       !.block_id = block_id,
                       !.finality = finality,
                       !.method = "query",
                       !.params = ViewBody(account_id, method_name, args,
                                           finality, block_id)])
    /\ UNCHANGED <<self_rpc_addresses, self_available_rpcs, now, installed>>
    /\ UNCHANGED tx_vars

\* The provider with one address, used for one view_call.
InitView == Construct(1, 1, 1, 1) /\ NoTransactionResult

NextView ==
    \/ \E c \in Callers, args \in ViewArgs, finality \in Finalities,
          block_id \in BlockIds :
           ViewCall(c, "inscription.near", "get_info", args, finality, block_id)
    \/ \E t \in Tasks, o \in ProbeOutcomes : ProbeDone(t, o)
    \/ \E c \in Callers, o \in PostOutcomes : PostDone(c, o)
    \/ \E c \in Callers : Return(c)

SpecView == InitView /\ [][NextView]_vars

(* ------------------------- TransactionResult -------------------------- *)
\* The log lines of an outcome, and the "logs" lists a response can carry.
LogEntries == {"a", "b"}

LogLists == SeqsUpTo(LogEntries, MaxLogs)

\* The result of a "tx" request as far as the logs go: transaction_outcome
\* and receipts_outcome, each outcome with its "logs".
Responses ==
    [transaction_outcome : [logs : LogLists],
     receipts_outcome : SeqsUpTo([logs : LogLists], MaxReceipts)]

\* ReceiptOutcome.__init__: self.logs is the list data["outcome"]["logs"].
ReceiptOutcome(data) == [logs |-> data.logs]

\* TransactionResult.__init__: one ReceiptOutcome for transaction_outcome and
\* one per element of receipts_outcome, in order.
TransactionResult(response) ==
    [transaction_outcome |-> ReceiptOutcome(response.transaction_outcome),
     receipt_outcome |->
         [i \in 1..Len(response.receipts_outcome) |->
             ReceiptOutcome(response.receipts_outcome[i])]]

\* "for ro in self.receipt_outcome: logs.extend(ro.logs)" from receipt k on.
RECURSIVE ExtendFrom(_, _, _)
ExtendFrom(logs, receipt_outcome, k) ==
    IF k > Len(receipt_outcome) THEN logs
    ELSE ExtendFrom(logs \o receipt_outcome[k].logs, receipt_outcome, k + 1)

\* The logs property, lines 285-290: "logs = self.transaction_outcome.logs"
\* names the list of the transaction outcome itself, no copy of it: the
\* extends change that list and the list is what is returned.
ReadLogs ==
    /\ transaction_result # <<>>
    /\ Len(reads) < MaxReads
    /\ LET self == transaction_result[1]
           logs == ExtendFrom(self.transaction_outcome.logs,
                              self.receipt_outcome, 1)
       IN  /\ transaction_result' =
                  <<[self EXCEPT !.transaction_outcome.logs = logs]>>
           /\ reads' = Append(reads, logs)
    /\ UNCHANGED decoded
    /\ UNCHANGED provider_vars

\* get_tx has returned a TransactionResult built from some response.
InitLogs ==
    /\ Construct(1, 1, 1, 0)
    /\ \E response \in Responses :
           /\ decoded = <<response>>
           /\ transaction_result = <<TransactionResult(response)>>
    /\ reads = <<>>

NextLogs == ReadLogs

SpecLogs == InitLogs /\ [][NextLogs]_vars

(* ======================================================================= *)
(* The claims                                                              *)
(* ======================================================================= *)
InDispatch(c) == call[c].op \in {"json_rpc", "send_tx_and_wait"}

\* The first n POSTs of the current request loop of c failed with a
\* transport-class error.
TransportUpTo(c, n) == \A k \in 1..n : call[c].outs[k] = "transport"

\* C1: in every dispatch the endpoints are attempted in the order of the
\* snapshot the loop iterates; when endpoint N is the first to succeed after
\* N-1 transport failures, the call has ended, call_rpc_request returned the
\* content obtained from endpoint N and exactly N POSTs were sent (none to
\* endpoint N+1 or later).
C1_FailoverInOrder ==
    \A c \in Callers :
        InDispatch(c) =>
            /\ call[c].posts = SubSeq(call[c].rpcs, 1, Len(call[c].posts))
            /\ \A n \in 1..Len(call[c].outs) :
                   (call[c].outs[n] = "ok" /\ TransportUpTo(c, n - 1)) =>
                       /\ call[c].pc = "done"
                       /\ call[c].content.src = call[c].rpcs[n]
                       /\ Len(call[c].posts) = n
                       /\ Len(call[c].outs) = n

\* C1 witness: the second of three ranked endpoints answered after the first
\* failed; the third was never POSTed to.
C1_Witness ==
    \E c \in Callers :
        /\ call[c].op = "json_rpc" /\ call[c].pc = "done"
        /\ Len(call[c].rpcs) > 2
        /\ call[c].outs = <<"transport", "ok">>
        /\ call[c].posts = SubSeq(call[c].rpcs, 1, 2)
        /\ call[c].result.kind = "return"
        /\ call[c].result.content.src = call[c].rpcs[2]

NoRpcAvailable == Raised("RpcNotAvailableError", "No RPC available", NoContent)

RpcNotAvailable == Raised("RpcNotAvailableError", "RPC not available", NoContent)

Cancelled(c) == call[c].result.exc = "CancelledError"

\* C2: a dispatch that found the snapshot empty sends no POST before the
\* refresh it awaits has run to completion, and does not end (unless
\* cancelled) without that refresh; when the awaited refresh leaves the
\* snapshot empty the call ends there with RpcNotAvailableError and no POST.
C2_EmptySnapshotAwaitsRefresh ==
    /\ [](\A c \in Callers :
             (InDispatch(c) /\ call[c].empty_at_start) =>
                 /\ call[c].posts # <<>> => call[c].refreshed
                 /\ call[c].pc = "await_refresh" => call[c].posts = <<>>
                 /\ (call[c].pc = "done" /\ ~Cancelled(c)) => call[c].refreshed)
    /\ [][\A c \in Callers :
              (/\ InDispatch(c) /\ call[c].pc = "await_refresh"
               /\ call'[c].refreshed /\ self_available_rpcs' = <<>>) =>
                  /\ call'[c].pc = "done"
                  /\ call'[c].result = NoRpcAvailable
                  /\ call'[c].posts = <<>>]_vars

\* C2 witness: a json_rpc call that found the snapshot empty, awaited a
\* refresh that found no endpoint, and ended with RpcNotAvailableError
\* without a POST.
C2_Witness ==
    \E c \in Callers :
        /\ call[c].op = "json_rpc" /\ call[c].pc = "done"
        /\ call[c].empty_at_start /\ call[c].refreshed
        /\ self_available_rpcs = <<>>
        /\ call[c].result = NoRpcAvailable
        /\ call[c].posts = <<>>

\* C3: when every endpoint of the iterated snapshot failed with a
\* transport-class error, json_rpc has POSTed to each endpoint exactly once,
\* in order, and has raised RpcNotAvailableError, not a transport error.
C3_AllTransportFailuresCollapse ==
    \A c \in Callers :
        call[c].op = "json_rpc" =>
            /\ (/\ call[c].rpcs # <<>>
                /\ Len(call[c].outs) = Len(call[c].rpcs)
                /\ TransportUpTo(c, Len(call[c].outs))) =>
                   /\ call[c].pc = "done"
                   /\ call[c].posts = call[c].rpcs
                   /\ call[c].result = RpcNotAvailable
            /\ call[c].pc = "done" => call[c].result.exc \notin TransportErrors

\* C3 witness: three endpoints, three transport failures, RpcNotAvailableError.
C3_Witness ==
    \E c \in Callers :
        /\ call[c].op = "json_rpc" /\ call[c].pc = "done"
        /\ Len(call[c].rpcs) > 2
        /\ call[c].posts = call[c].rpcs
        /\ Len(call[c].outs) = Len(call[c].rpcs)
        /\ TransportUpTo(c, Len(call[c].outs))
        /\ call[c].result = RpcNotAvailable

\* C4 (the claim as stated): a call never ends on a timed-out POST while the
\* snapshot it iterates has a further endpoint: the timeout makes the loop go
\* on to the next endpoint.
C4_TimeoutFallsBack ==
    \A c \in Callers :
        (/\ call[c].op = "json_rpc" /\ call[c].pc = "done"
         /\ call[c].outs # <<>>
         /\ call[c].outs[Len(call[c].outs)] = "timeout") =>
            Len(call[c].outs) = Len(call[c].rpcs)

ProviderKinds == {PROVIDER_CODE_TO_EXCEPTION[k] : k \in DOMAIN PROVIDER_CODE_TO_EXCEPTION}

ActionKinds == {ERROR_CODE_TO_EXCEPTION[k] : k \in DOMAIN ERROR_CODE_TO_EXCEPTION}

\* C5 (the claim as stated): every json_rpc call that ends (cancellation by
\* the caller aside) returns the decoded result, raises a classified RPC
\* error built from the response that carried it, or raises
\* RpcNotAvailableError.
C5_NoBareException ==
    \A c \in Callers :
        (call[c].op = "json_rpc" /\ call[c].pc = "done" /\ ~Cancelled(c)) =>
            \/ /\ call[c].result.kind = "return"
               /\ call[c].result.content = call[c].content
               /\ call[c].content.body.has_result
            \/ /\ call[c].result.kind = "raise"
               /\ call[c].result.exc \in ProviderKinds \cup ActionKinds
               /\ call[c].result.content = call[c].content
               /\ call[c].content.body.has_error
            \/ /\ call[c].result.kind = "raise"
               /\ call[c].result.exc = "RpcNotAvailableError"

\* The endpoints the last completed refresh found healthy, and the latency it
\* measured for each.
HealthyEndpoints == {p[1] : p \in installed.healthy}

LatencyOf(e) == CHOOSE l \in Latencies : <<e, l>> \in installed.healthy

\* C6: once a check_available_rpcs has completed, the snapshot holds exactly
\* the candidates whose probe in the last completed run returned HTTP 200
\* with syncing false, each once, in ascending order of the latency that run
\* measured.
C6_SnapshotRankedAndHealthy ==
    installed.done =>
        /\ Range(self_available_rpcs) = HealthyEndpoints
        /\ Len(self_available_rpcs) = Cardinality(HealthyEndpoints)
        /\ \A i, j \in 1..Len(self_available_rpcs) :
               i < j => LatencyOf(self_available_rpcs[i])
                            <= LatencyOf(self_available_rpcs[j])

\* C6 witness: candidates [1, 2, 3]; the refresh dropped 1, measured 2 slower
\* than 3; the snapshot is [3, 2] and the next dispatch POSTs to 3 first.
C6_Witness ==
    /\ installed.done
    /\ installed.healthy = {<<2, 2>>, <<3, 1>>}
    /\ self_available_rpcs = <<3, 2>>
    /\ \E c \in Callers :
           /\ call[c].op = "json_rpc" /\ call[c].pc = "post"
           /\ call[c].trig = "none"
           /\ call[c].posts = <<3>>

\* C7: the snapshot changes only in the step in which a run of
\* check_available_rpcs completes its last probe, and then to the ranking of
\* that whole run; a dispatch enters its request loop with the snapshot of
\* that moment and, while it stays in the loop, iterates that list whatever
\* the snapshot becomes.
C7_SnapshotReplacedAtomically ==
    /\ [][self_available_rpcs' # self_available_rpcs =>
              /\ \E t \in Tasks :
                     /\ task[t].pc = "probe"
                     /\ task[t].i = Len(self_rpc_addresses)
                     /\ task'[t].pc = "idle"
              /\ installed'.done
              /\ installed'.probed = Len(self_rpc_addresses)
              /\ Range(self_available_rpcs') = {p[1] : p \in installed'.healthy}
         ]_vars
    /\ [][\A c \in Callers :
              /\ (call[c].pc # "post" /\ call'[c].pc = "post") =>
                     call'[c].rpcs = self_available_rpcs'
              /\ (call[c].pc = "post" /\ call'[c].pc = "post") =>
                     /\ call'[c].rpcs = call[c].rpcs
                     /\ call'[c].posts =
                            SubSeq(call[c].rpcs, 1, Len(call'[c].posts))
         ]_vars

\* C7 witness: a dispatch POSTing to the second endpoint of the list it
\* started with, after a refresh has replaced the snapshot by another list.
C7_Witness ==
    \E c \in Callers :
        /\ call[c].pc = "post" /\ call[c].idx > 1
        /\ installed.done
        /\ call[c].rpcs # self_available_rpcs
        /\ call[c].posts = SubSeq(call[c].rpcs, 1, call[c].idx)

\* C8: a dispatch that finds the snapshot non-empty starts a refresh only if
\* at least Cooldown seconds have passed since the last refresh a dispatch
\* started; a dispatch that finds the snapshot empty starts a refresh
\* whatever the time and waits for it, with no POST sent.
C8_RefreshOncePerCooldown ==
    [][\A c \in Callers :
           (call[c].pc = "idle" /\ call'[c].op = "json_rpc") =>
               /\ call'[c].trig = "detached" =>
                      /\ self_available_rpcs # <<>>
                      /\ now - last_trigger >= Cooldown
               /\ (self_available_rpcs # <<>> /\ now - last_trigger < Cooldown)
                      => (call'[c].trig = "none" /\ task' = task)
               /\ self_available_rpcs = <<>> =>
                      /\ call'[c].trig = "awaited"
                      /\ call'[c].pc = "await_refresh"
                      /\ call'[c].posts = <<>>
                      /\ \E t \in Tasks : /\ task[t].pc = "idle"
                                          /\ task'[t].pc = "probe"
                                          /\ task'[t].awaiter = c
      ]_vars

\* C8 witness: within the cooldown of the last refresh, one dispatch found
\* the snapshot non-empty and started no refresh, and a later one found it
\* empty and awaits the refresh it was forced to start.
C8_Witness ==
    \E c, d \in Callers :
        /\ call[c].op = "json_rpc" /\ call[c].pc = "post"
        /\ call[c].trig = "none" /\ ~call[c].stale_at_start
        /\ call[d].op = "json_rpc" /\ call[d].pc = "await_refresh"
        /\ call[d].trig = "awaited" /\ ~call[d].stale_at_start
        /\ last_trigger = now

\* C9: a dispatch awaits check_available_rpcs only if it found the snapshot
\* empty; the refresh a dispatch starts on a non-empty snapshot is a task it
\* does not wait for: the dispatch is in its request loop or has ended, with
\* the POSTs going to the list the loop started with.
C9_BackgroundRefreshNotAwaited ==
    \A c \in Callers :
        InDispatch(c) =>
            /\ call[c].pc = "await_refresh" =>
                   (call[c].empty_at_start /\ call[c].trig = "awaited")
            /\ call[c].trig = "awaited" => call[c].empty_at_start
            /\ call[c].trig = "detached" =>
                   /\ ~call[c].empty_at_start
                   /\ call[c].pc \in {"post", "done"}
                   /\ call[c].posts # <<>>
                   /\ call[c].posts = SubSeq(call[c].rpcs, 1, Len(call[c].posts))
            /\ (call[c].stale_at_start /\ ~call[c].empty_at_start) =>
                   call[c].trig = "detached"

\* C9 witness: a dispatch that started a background refresh has returned a
\* result while that refresh, the first ever, has not completed a single
\* probe.
C9_Witness ==
    \E c \in Callers :
        /\ call[c].op = "json_rpc" /\ call[c].pc = "done"
        /\ call[c].trig = "detached"
        /\ call[c].result.kind = "return"
        /\ ~installed.done
        /\ \E t \in Tasks : /\ task[t].pc = "probe" /\ task[t].awaiter = 0
                            /\ task[t].probed = 0

\* The broadcast of send_tx_and_wait call c failed with the RPC-timeout
\* classification and both trx_hash and receiver_id were supplied.
TimedOutWithIds(c) ==
    /\ call[c].op = "send_tx_and_wait"
    /\ call[c].broadcast.kind = "raise"
    /\ call[c].broadcast.exc = "RPCTimeoutError"
    /\ call[c].trx_hash /\ call[c].receiver_id

\* C10: after such a broadcast the call sleeps 3 seconds before each lookup,
\* makes at most TIMEOUT_WAIT_RPC // 3 lookups, and ends (cancellation aside)
\* only by returning the non-empty result of the lookup just made or, with
\* all lookups made, by raising the very error the broadcast raised.
C10_PollsUntilResultOrBound ==
    \A c \in Callers :
        TimedOutWithIds(c) =>
            /\ call[c].polls <= TIMEOUT_WAIT_RPC \div 3
            /\ \A k \in 1..Len(call[c].sleeps) : call[c].sleeps[k] = 3
            /\ call[c].polls <= Len(call[c].sleeps)
            /\ call[c].pc = "sleep" => Len(call[c].sleeps) = call[c].polls + 1
            /\ (call[c].pc # "sleep" /\ ~Cancelled(c)) =>
                   Len(call[c].sleeps) = call[c].polls
            /\ call[c].pc = "sleep" => call[c].polls < TIMEOUT_WAIT_RPC \div 3
            /\ (call[c].pc = "done" /\ ~Cancelled(c)) =>
                   \/ /\ call[c].result.kind = "return"
                      /\ call[c].polls > 0
                      /\ call[c].result.content = call[c].content
                      /\ call[c].content.body.has_result
                   \/ /\ call[c].result = call[c].broadcast
                      /\ call[c].polls = TIMEOUT_WAIT_RPC \div 3

\* C10 witness: every lookup failed; after the last one the broadcast's
\* timeout error is raised.
C10_Witness ==
    \E c \in Callers :
        /\ TimedOutWithIds(c)
        /\ call[c].pc = "done"
        /\ call[c].polls = TIMEOUT_WAIT_RPC \div 3
        /\ call[c].sleeps = <<3, 3>>
        /\ call[c].outs # <<>>
        /\ call[c].result = call[c].broadcast

\* The RPC-level error kinds: what get_error_from_response can classify a
\* response as.
RpcErrorKinds == ProviderKinds \cup ActionKinds

\* C11 (the claim as stated): when a transaction lookup of the polling loop
\* raised an RPC-level error of a kind other than InternalError (unknown
\* account, RPC timeout, ...), send_tx_and_wait has ended and raised that
\* error to its caller.
C11_OnlyInternalErrorSwallowed ==
    \A c \in Callers :
        (/\ call[c].op = "send_tx_and_wait"
         /\ call[c].lookup.kind = "raise"
         /\ call[c].lookup.exc \in RpcErrorKinds \ {"InternalError"}) =>
            /\ call[c].pc = "done"
            /\ call[c].result = call[c].lookup

\* The decoded body of a json_rpc call that has ended was an error response
\* with error["data"].
ClassifiedCall(c) ==
    /\ call[c].op = "json_rpc" /\ call[c].pc = "done"
    /\ call[c].content.body.has_error
    /\ call[c].content.body.has_data

Mapped(key) == key \in DOMAIN ERROR_CODE_TO_EXCEPTION

\* The deepest key of the chain that is an action-level code, 0 if none is.
DeepestMapped(keys) ==
    LET at == {k \in 1..Len(keys) : Mapped(keys[k])}
    IN  IF at = {} THEN 0 ELSE CHOOSE k \in at : \A j \in at : j <= k

\* The length of the leading run of keys that are action-level codes.
LeadingMapped(keys) ==
    LET run == {k \in 0..Len(keys) : \A j \in 1..k : Mapped(keys[j])}
    IN  CHOOSE k \in run : \A j \in run : j <= k

\* The kind of the cause name, refined to the kind of key number k.
KindAt(body, k) ==
    IF k = 0
    THEN (IF body.cause \in DOMAIN PROVIDER_CODE_TO_EXCEPTION
          THEN PROVIDER_CODE_TO_EXCEPTION[body.cause] ELSE "InternalError")
    ELSE ERROR_CODE_TO_EXCEPTION[body.keys[k]]

\* C12 (the claim as stated): the kind raised for an error response is the
\* kind of the deepest key of the nested body that is mapped to an
\* action-level code, and the kind of the cause name when no key is mapped.
C12_DeepestMappedKey ==
    \A c \in Callers :
        ClassifiedCall(c) =>
            call[c].result.exc =
                KindAt(call[c].content.body,
                       DeepestMapped(call[c].content.body.keys))

\* C12 (amended): the walk stops at the first key that is not an action-level
\* code: the kind raised is that of the last key of the leading run of mapped
\* keys, and the kind of the cause name when the first key is not mapped.
C12_LeadingMappedKeys ==
    \A c \in Callers :
        ClassifiedCall(c) =>
            /\ call[c].result.kind = "raise"
            /\ call[c].result.exc =
                   KindAt(call[c].content.body,
                          LeadingMapped(call[c].content.body.keys))

\* C12 witness: cause INVALID_TRANSACTION with two nested action-level codes
\* was refined to the inner one.
C12_Witness ==
    \E c \in Callers :
        /\ ClassifiedCall(c)
        /\ call[c].content.body.cause = "INVALID_TRANSACTION"
        /\ call[c].content.body.keys = <<"InvalidTxError", "InvalidNonce">>
        /\ call[c].result.exc = "InvalidNonce"

\* C13 (the claim as stated): a json_rpc call that obtained a decoded,
\* non-empty body raises the classified error when the body has an "error"
\* field (InternalError for a cause that is unmapped or missing and not
\* refined) and returns the body's result, raising nothing, when it has none.
C13_ErrorRaisedElseResult ==
    \A c \in Callers :
        (/\ call[c].op = "json_rpc" /\ call[c].pc = "done"
         /\ call[c].content.src # 0
         /\ ~call[c].content.body.falsy) =>
            IF call[c].content.body.has_error
            THEN /\ call[c].result.kind = "raise"
                 /\ call[c].result.exc \in RpcErrorKinds
                 /\ (/\ call[c].content.body.cause
                            \notin DOMAIN PROVIDER_CODE_TO_EXCEPTION
                      /\ LeadingMapped(call[c].content.body.keys) = 0) =>
                         call[c].result.exc = "InternalError"
            ELSE call[c].result = Returned(call[c].content)

\* In this step the caller awaiting run t is cancelled, and the run with it.
CancelledWith(t) ==
    /\ task[t].awaiter # 0
    /\ call[task[t].awaiter].pc = "await_refresh"
    /\ call'[task[t].awaiter].result.exc = "CancelledError"

\* C14: whatever a probe does, the run of check_available_rpcs goes on: each
\* step of a run (its cancellation aside) either moves it to the probe of the
\* next candidate with the snapshot untouched or, after the last candidate,
\* ends it with a snapshot installed that holds only the endpoints found
\* healthy; no call ever ends with an exception of a probe, and an awaited
\* check_available_rpcs returns normally.
C14_ProbeFailuresContained ==
    /\ [][\A t \in Tasks :
              (task[t].pc = "probe" /\ task'[t] # task[t] /\ ~CancelledWith(t))
              => IF task[t].i < Len(self_rpc_addresses)
                 THEN /\ task'[t].pc = "probe"
                      /\ task'[t].i = task[t].i + 1
                      /\ task'[t].probed = task[t].probed + 1
                      /\ self_available_rpcs' = self_available_rpcs
                 ELSE /\ task'[t].pc = "idle"
                      /\ installed'.done
                      /\ installed'.probed = Len(self_rpc_addresses)
                      /\ installed'.raised >= task[t].raised
                      /\ Range(self_available_rpcs') =
                             {p[1] : p \in installed'.healthy}
                      /\ task[t].awaiter # 0 =>
                             call'[task[t].awaiter].pc # "await_refresh"
         ]_vars
    /\ [](\A c \in Callers :
             call[c].pc = "done" =>
                 /\ call[c].result.exc # "ProbeException"
                 /\ (call[c].op = "check_available_rpcs" /\ ~Cancelled(c)) =>
                        call[c].result = Returned(NoContent))

\* C14 witness: a dispatch started a background refresh of three candidates
\* and is in its request loop or has ended; in the refresh the probes of the
\* first two candidates raised, the third was probed all the same and is the
\* snapshot installed.
C14_Witness ==
    /\ installed.done
    /\ installed.probed = 3
    /\ installed.raised = 2
    /\ self_available_rpcs = <<3>>
    /\ \E c \in Callers :
           /\ call[c].trig = "detached"
           /\ call[c].pc \in {"post", "done"}
           /\ call[c].result.kind # "raise"

\* C15 (the claim as stated): the probes of one run are fanned out: while a
\* run with at least two candidates is suspended, the probe of every
\* candidate that has not completed yet is in flight, a later candidate's
\* together with an earlier one's.
C15_ProbesFanOut ==
    \A t \in Tasks :
        (task[t].pc = "probe" /\ Len(self_rpc_addresses) >= 2) =>
            InFlight(t) = (1..Len(self_rpc_addresses)) \ (1..task[t].probed)

\* The logs of the decoded response: those of the transaction outcome, then
\* those of receipt outcomes k, k + 1, ... in order.
RECURSIVE ReceiptLogsFrom(_)
ReceiptLogsFrom(k) ==
    IF k > Len(decoded[1].receipts_outcome) THEN <<>>
    ELSE decoded[1].receipts_outcome[k].logs \o ReceiptLogsFrom(k + 1)

DecodedLogs == decoded[1].transaction_outcome.logs \o ReceiptLogsFrom(1)

\* C16 (the claim as stated): every read of TransactionResult.logs returns
\* the transaction outcome's logs followed by the logs of every receipt
\* outcome in receipt order, each entry as often as the response has it.
C16_LogsConcatenated ==
    \A k \in 1..Len(reads) : reads[k] = DecodedLogs

\* C17 (the claim as stated): reading logs leaves the logs of the transaction
\* outcome and of every receipt outcome as they were decoded, and all reads
\* return equal sequences.
C17_LogsIsPureRead ==
    reads # <<>> =>
        /\ transaction_result[1].transaction_outcome.logs =
               decoded[1].transaction_outcome.logs
        /\ \A i \in 1..Len(transaction_result[1].receipt_outcome) :
               transaction_result[1].receipt_outcome[i].logs =
                   decoded[1].receipts_outcome[i].logs
        /\ \A j, k \in 1..Len(reads) : reads[j] = reads[k]

\* C18 (the claim as stated): the query body of a view_call has exactly one
\* of the keys block_id and finality: block_id, with the value given, whenever
\* a block_id was supplied, 0 included, and finality only when none was.
C18_BlockIdOrFinality ==
    \A c \in Callers :
        call[c].op = "view_call" =>
            /\ ("block_id" \in DOMAIN call[c].params)
                   # ("finality" \in DOMAIN call[c].params)
            /\ call[c].block_id # <<>> =>
                   /\ "block_id" \in DOMAIN call[c].params
                   /\ call[c].params["block_id"] = call[c].block_id[1]
            /\ call[c].block_id = <<>> =>
                   /\ "finality" \in DOMAIN call[c].params
                   /\ call[c].params["finality"] = call[c].finality

\* C19: a send_tx_and_wait call sleeps or looks a transaction up only after
\* its broadcast raised RPCTimeoutError with both trx_hash and receiver_id
\* supplied; a broadcast that ended any other way (a result, another error
\* kind, RpcNotAvailableError, a timeout with an id missing) ends the call
\* at once with the broadcast's own outcome and no lookup.
C19_PollsOnlyAfterTimeoutWithIds ==
    \A c \in Callers :
        call[c].op = "send_tx_and_wait" =>
            /\ (\/ call[c].polls > 0
                \/ call[c].sleeps # <<>>
                \/ call[c].stage = "lookup") => TimedOutWithIds(c)
            /\ call[c].broadcast.kind = "none" =>
                   (call[c].polls = 0 /\ call[c].stage = "broadcast")
            /\ (call[c].broadcast.kind # "none" /\ ~TimedOutWithIds(c)) =>
                   /\ call[c].pc = "done"
                   /\ call[c].result = call[c].broadcast
                   /\ call[c].stage = "broadcast"
                   /\ call[c].polls = 0
                   /\ call[c].sleeps = <<>>

\* C19 witness: the broadcast raised RPCTimeoutError, a trx_hash was supplied
\* but no receiver_id: the timeout was raised at once, with no sleep and no
\* lookup.
C19_Witness ==
    \E c \in Callers :
        /\ call[c].op = "send_tx_and_wait" /\ call[c].pc = "done"
        /\ call[c].trx_hash /\ ~call[c].receiver_id
        /\ call[c].broadcast.kind = "raise"
        /\ call[c].broadcast.exc = "RPCTimeoutError"
        /\ call[c].result = call[c].broadcast
        /\ call[c].polls = 0 /\ call[c].sleeps = <<>>

\* C20 (the claim as stated): a send_tx_and_wait call given the timeout t
\* makes at most t // 3 transaction lookups, each after a sleep of 3 seconds.
C20_AttemptsFromCallTimeout ==
    \A c \in Callers :
        call[c].op = "send_tx_and_wait" =>
            /\ call[c].polls <= call[c].timeout \div 3
            /\ Len(call[c].sleeps) <= call[c].timeout \div 3
            /\ \A k \in 1..Len(call[c].sleeps) : call[c].sleeps[k] = 3

\* C21 (the claim as stated): the snapshot is always the ranking made by the
\* run of check_available_rpcs that started last among the runs completed: a
\* run that started earlier and finishes later does not replace it.
C21_NewestRefreshWins ==
    installed.done => self_available_rpcs = installed.newest_result

\* The three fields of the provider.
ProviderFields ==
    <<self_rpc_addresses, self_available_rpcs, self_last_rpc_addr_check>>

\* C22: the snapshot starts as the candidate list and always holds only
\* candidates; no step changes the candidate list; the snapshot changes only
\* in a step that completes a run of check_available_rpcs; a json_rpc call
\* that starts on a non-empty snapshot within the cooldown starts no refresh
\* and leaves the three fields as they are, and so does every end of one of
\* its POSTs, failed or not.
C22_CandidatesAndSnapshotFrame ==
    /\ self_available_rpcs = self_rpc_addresses
    /\ [](Range(self_available_rpcs) \subseteq Range(self_rpc_addresses))
    /\ [][self_rpc_addresses' = self_rpc_addresses]_vars
    /\ [][self_available_rpcs' # self_available_rpcs =>
              \E t \in Tasks : /\ task[t].pc = "probe"
                                /\ task[t].i = Len(self_rpc_addresses)
                                /\ task'[t].pc = "idle"]_vars
    /\ [][\A c \in Callers :
              /\ (/\ call[c].pc = "idle" /\ call'[c].op = "json_rpc"
                  /\ self_available_rpcs # <<>>
                  /\ self_last_rpc_addr_check >= now - Cooldown) =>
                     /\ ProviderFields' = ProviderFields
                     /\ task' = task
                     /\ call'[c].trig = "none"
              /\ (call[c].pc = "post" /\ call'[c] # call[c]) =>
                     ProviderFields' = ProviderFields
         ]_vars

\* C22 witness: a json_rpc call that started within the cooldown on a
\* non-empty snapshot has failed at every endpoint of it and ended with
\* RpcNotAvailableError; the snapshot still is the list it iterated.
C22_Witness ==
    \E c \in Callers :
        /\ call[c].op = "json_rpc" /\ call[c].pc = "done"
        /\ call[c].trig = "none" /\ ~call[c].stale_at_start
        /\ Len(call[c].rpcs) > 1
        /\ Len(call[c].outs) = Len(call[c].rpcs)
        /\ TransportUpTo(c, Len(call[c].outs))
        /\ call[c].result = RpcNotAvailable
        /\ self_available_rpcs = call[c].rpcs

\* The caller is inside an operation that has not ended.
Busy(c) == call[c].pc \in {"await_refresh", "post", "sleep"}

\* C23: every request loop POSTs to the endpoints of the list it iterates in
\* order, each at most once; a send_tx_and_wait makes at most
\* TIMEOUT_WAIT_RPC // 3 lookups; and, with every HTTP request and sleep
\* completing, every json_rpc and send_tx_and_wait call that has begun
\* eventually ends, by a result or an error.
C23_CallsTerminate ==
    /\ [](\A c \in LiveCallers :
             /\ Len(call[c].posts) <= Len(call[c].rpcs)
             /\ Len(call[c].outs) <= Len(call[c].posts)
             /\ call[c].posts = SubSeq(call[c].rpcs, 1, Len(call[c].posts))
             /\ \A i, j \in 1..Len(call[c].posts) :
                    i # j => call[c].posts[i] # call[c].posts[j]
             /\ call[c].polls <= TIMEOUT_WAIT_RPC \div 3
             /\ call[c].op = "json_rpc" => call[c].polls = 0)
    /\ \A c \in LiveCallers :
           Busy(c) ~> (/\ call[c].pc = "done"
                       /\ call[c].result.kind \in {"return", "raise"})

\* C23 witness: a send_tx_and_wait call has ended with the result of its
\* last permitted lookup, found at the second endpoint after one POST to
\* each.
C23_Witness ==
    \E c \in Callers :
        /\ call[c].op = "send_tx_and_wait" /\ call[c].pc = "done"
        /\ call[c].polls = TIMEOUT_WAIT_RPC \div 3
        /\ call[c].result.kind = "return"
        /\ call[c].outs = <<"transport", "ok">>
        /\ call[c].posts = call[c].rpcs

====
